---- MODULE Spec2Model ----
(***************************************************************************)
(* simsearch: an in-memory fuzzy search index (src/src/lib.rs).            *)
(*                                                                         *)
(* A string is a sequence of one-character strings, <<"a", "b">> is "ab".  *)
(* Scores are exact rationals, held as integers in units of 1/Scale; the   *)
(* code computes them in f64.                                              *)
(***************************************************************************)
EXTENDS Integers, Sequences, FiniteSets, TLC

VARIABLES
    \* the fields of SimSearch
    option, id_num_counter, ids_map, reverse_ids_map, forward_map, reverse_map,
    \* an operation has panicked
    panicked,
    \* the last call: its name, its arguments and what it returned
    last,
    \* the identifiers deleted and not inserted since
    deleted,
    \* every slot an insert_tokens call has assigned so far
    assigned,
    \* the insert calls so far, recorded by the re-insert scenario
    hist

vars == <<option, id_num_counter, ids_map, reverse_ids_map, forward_map,
          reverse_map, panicked, last, deleted, assigned, hist>>

(***************************************************************************)
(* Bounds of the model.                                                    *)
(***************************************************************************)
\* Cap on id_num_counter: the number of insert_tokens calls in one run.
MaxInserts == 2

\* The identifiers the callers use: one under test and one other.
Ids == {1, 2}

(***************************************************************************)
(* Strings.                                                                *)
(***************************************************************************)
Range(s) == {s[i] : i \in DOMAIN s}

\* The byte of a character: String's Ord compares bytes.
Code(c) ==
    CASE c = " " -> 32
      [] c = "-" -> 45
      [] c = "A" -> 65
      [] c = "B" -> 66
      [] c = "a" -> 97
      [] c = "b" -> 98
      [] c = "c" -> 99

\* char::is_whitespace
IsWhitespace(c) == c = " "

\* str::to_lowercase, one character at a time
LowerChar(c) ==
    CASE c = "A" -> "a"
      [] c = "B" -> "b"
      [] OTHER -> c

to_lowercase(s) == [i \in DOMAIN s |-> LowerChar(s[i])]

\* String's Ord: lexicographic on bytes, a proper prefix is smaller.
RECURSIVE StrLt(_, _)
StrLt(a, b) ==
    IF b = <<>> THEN FALSE
    ELSE IF a = <<>> THEN TRUE
    ELSE IF Code(Head(a)) # Code(Head(b)) THEN Code(Head(a)) < Code(Head(b))
    ELSE StrLt(Tail(a), Tail(b))

\* Does pat occur in s at position i (1-based)?
OccursAt(s, pat, i) ==
    /\ i + Len(pat) - 1 <= Len(s)
    /\ \A j \in 1..Len(pat) : s[i + j - 1] = pat[j]

\* str::split_whitespace: the maximal runs of non-whitespace characters.
RECURSIVE split_whitespace(_)
split_whitespace(s) ==
    IF s = <<>> THEN <<>>
    ELSE IF IsWhitespace(Head(s)) THEN split_whitespace(Tail(s))
    ELSE LET stops == {i \in 1..Len(s) : IsWhitespace(s[i])}
             n == IF stops = {} THEN Len(s)
                  ELSE (CHOOSE i \in stops : \A j \in stops : i <= j) - 1
         IN  <<SubSeq(s, 1, n)>> \o split_whitespace(SubSeq(s, n + 1, Len(s)))

\* str::split(pat): the pieces between the non-overlapping occurrences of pat,
\* found left to right. The empty pattern matches at every character boundary.
RECURSIVE split(_, _)
split(s, pat) ==
    IF pat = <<>>
    THEN <<(<<>>)>> \o [i \in 1..Len(s) |-> <<s[i]>>] \o <<(<<>>)>>
    ELSE LET hits == {i \in 1..Len(s) : OccursAt(s, pat, i)}
         IN  IF hits = {} THEN <<s>>
             ELSE LET i == CHOOSE h \in hits : \A g \in hits : h <= g
                  IN  <<SubSeq(s, 1, i - 1)>>
                      \o split(SubSeq(s, i + Len(pat), Len(s)), pat)

\* str::split_terminator(pat): split(pat) without a trailing empty piece.
split_terminator(s, pat) ==
    LET ps == split(s, pat)
    IN  IF ps[Len(ps)] = <<>> THEN SubSeq(ps, 1, Len(ps) - 1) ELSE ps

\* Iterator::flat_map: the pieces of every element, in order
RECURSIVE Flatten(_)
Flatten(xss) ==
    IF xss = <<>> THEN <<>> ELSE Head(xss) \o Flatten(Tail(xss))

\* Vec::dedup: drops an element equal to the one before it.
RECURSIVE Dedup(_)
Dedup(xs) ==
    IF Len(xs) <= 1 THEN xs
    ELSE LET front == Dedup(SubSeq(xs, 1, Len(xs) - 1))
         IN  IF xs[Len(xs)] = xs[Len(xs) - 1] THEN front
             ELSE Append(front, xs[Len(xs)])

\* Vec<String>::sort
SortTokens(xs) == SortSeq(xs, StrLt)

(***************************************************************************)
(* SearchOptions.                                                          *)
(***************************************************************************)
\* The fragments callers hand to insert, insert_tokens, search and
\* search_tokens: empty, whitespace only, one token, two tokens, upper case, a
\* repeated token.
Fragments ==
    { <<>>,
      <<" ">>,
      <<"a">>,
      <<"b">>,
      <<"a", "b">>,
      <<"a", " ", "a", "b">>,
      <<"A", " ", "a">> }

\* The fragment lists handed to insert_tokens and search_tokens: no fragment,
\* the same token twice, and two tokens out of order. insert and search
\* hand over the lists of one fragment.
FragLists ==
    { <<>>,
      << <<"a">>, <<"a">> >>,
      << <<"a", "b">>, <<"a">> >> }

\* Every list of fragments that reaches the tokenizer.
TokenizerInputs == FragLists \cup {<<f>> : f \in Fragments}

RECURSIVE Gcd(_, _)
Gcd(m, n) == IF n = 0 THEN m ELSE Gcd(n, m % n)

RECURSIVE LcmUpTo(_)
LcmUpTo(n) == IF n <= 1 THEN 1
              ELSE LET l == LcmUpTo(n - 1) IN (l * n) \div Gcd(l, n)

MaxTokenLen ==
    LET lens == {Len(f) : f \in Fragments}
    IN  CHOOSE n \in lens : \A m \in lens : m <= n

\* Scores are exact: 1.0 is Scale. A Jaro-Winkler score of two tokens of at
\* most MaxTokenLen characters is a multiple of 1 / (30 * lcm(1..MaxTokenLen)),
\* an edit-distance score a multiple of 1 / lcm(1..MaxTokenLen).
Scale == 30 * LcmUpTo(MaxTokenLen)
Tenths(n) == n * (Scale \div 10)

SearchOptions_new ==
    [case_sensitive |-> FALSE, stop_whitespace |-> TRUE, stop_words |-> <<>>,
     threshold |-> Tenths(8), levenshtein |-> FALSE]

with_case_sensitive(o, b) == [o EXCEPT !.case_sensitive = b]
with_stop_whitespace(o, b) == [o EXCEPT !.stop_whitespace = b]
with_stop_words(o, ws) == [o EXCEPT !.stop_words = ws]
with_threshold(o, t) == [o EXCEPT !.threshold = t]
with_levenshtein(o, b) == [o EXCEPT !.levenshtein = b]

(***************************************************************************)
(* The tokenizer.                                                          *)
(***************************************************************************)
\* Mutant of SplitStopWords: every stop word splits the tokens it was handed
\* first, and only the pieces of the last stop word are kept.
SplitStopWords_last(tokens, stop_words) ==
    IF stop_words = <<>> THEN tokens
    ELSE LET w == stop_words[Len(stop_words)]
         IN  Flatten([i \in DOMAIN tokens |-> split_terminator(tokens[i], w)])

RECURSIVE SplitStopWords(_, _)
SplitStopWords(tokens, stop_words) ==
    IF stop_words = <<>> THEN tokens
    ELSE LET w == Head(stop_words)
             pieces == [i \in DOMAIN tokens |-> split_terminator(tokens[i], w)]
         IN  SplitStopWords(Flatten(pieces), Tail(stop_words))

tokenize(o, tokens) ==
    LET folded == [i \in DOMAIN tokens |->
                     IF o.case_sensitive THEN tokens[i]
                     ELSE to_lowercase(tokens[i])]
        spaced == IF o.stop_whitespace
                  THEN Flatten([i \in DOMAIN folded |-> split_whitespace(folded[i])])
                  ELSE folded
        cut    == SplitStopWords(spaced, o.stop_words)
        NonEmpty(t) == t # <<>>
    IN  SelectSeq(cut, NonEmpty)

(***************************************************************************)
(* Similarity scoring.                                                     *)
(***************************************************************************)
Min2(x, y) == IF x <= y THEN x ELSE y
Max2(x, y) == IF x >= y THEN x ELSE y

\* strsim::jaro's matching loop over the characters a[i], i = 0 .. a_len - 1
\* (0-based as in the code; st is the loop's state).
RECURSIVE JaroLoop(_, _, _, _, _)
JaroLoop(a, b, search_range, i, st) ==
    IF i >= Len(a) THEN st
    ELSE LET min_bound == IF i > search_range THEN Max2(0, i - search_range) ELSE 0
             max_bound == Min2(Len(b) - 1, i + search_range)
             cands == {j \in min_bound..max_bound :
                          a[i + 1] = b[j + 1] /\ j \notin st.b_consumed}
         IN  IF min_bound > max_bound \/ cands = {}
             THEN JaroLoop(a, b, search_range, i + 1, st)
             ELSE LET j == CHOOSE c \in cands : \A d \in cands : c <= d
                  IN  JaroLoop(a, b, search_range, i + 1,
                        [b_consumed     |-> st.b_consumed \cup {j},
                         matches        |-> st.matches + 1,
                         transpositions |-> st.transpositions
                                            + (IF j < st.b_match_index THEN 1 ELSE 0),
                         b_match_index  |-> j])

\* strsim::jaro
jaro(a, b) ==
    IF Len(a) = 0 /\ Len(b) = 0 THEN Scale
    ELSE IF Len(a) = 0 \/ Len(b) = 0 THEN 0
    ELSE IF Len(a) = 1 /\ Len(b) = 1 THEN (IF a = b THEN Scale ELSE 0)
    ELSE LET search_range == (Max2(Len(a), Len(b)) \div 2) - 1
             st == JaroLoop(a, b, search_range, 0,
                      [b_consumed |-> {}, matches |-> 0, transpositions |-> 0,
                       b_match_index |-> 0])
             m == st.matches
         IN  IF m = 0 THEN 0
             ELSE (Scale * (m * Len(b) * m + m * Len(a) * m
                            + (m - st.transpositions) * Len(a) * Len(b)))
                  \div (3 * Len(a) * Len(b) * m)

\* strsim::jaro_winkler
jaro_winkler(a, b) ==
    LET jaro_distance == jaro(a, b)
        n == Min2(Len(a), Len(b))
        differ == {i \in 1..n : a[i] # b[i]}
        prefix_length == IF differ = {} THEN n
                         ELSE (CHOOSE i \in differ : \A j \in differ : i <= j) - 1
        jaro_winkler_distance ==
            jaro_distance + (prefix_length * (Scale - jaro_distance)) \div 10
    IN  IF jaro_winkler_distance <= Scale THEN jaro_winkler_distance ELSE Scale

\* The Levenshtein distance of a and b.
levenshtein(a, b) ==
    LET d[i \in 0..Len(a), j \in 0..Len(b)] ==
            IF i = 0 THEN j
            ELSE IF j = 0 THEN i
            ELSE Min2(Min2(d[i - 1, j] + 1, d[i, j - 1] + 1),
                      d[i - 1, j - 1] + (IF a[i] = b[j] THEN 0 ELSE 1))
    IN  d[Len(a), Len(b)]

\* Option<u32>
None == <<>>
Some(x) == <<x>>

\* triple_accel::levenshtein_simd_k: the distance when it is at most k.
levenshtein_simd_k(a, b, k) ==
    LET dist == levenshtein(a, b) IN IF dist <= k THEN Some(dist) ELSE None

\* f64::MIN: below every threshold and every score.
F64_MIN == 0 - 1000 * Scale

\* ((1.0 - threshold) * len).ceil() as u32: the cast saturates at 0.
CutoffK(threshold, len) ==
    LET x == (Scale - threshold) * len
    IN  IF x <= 0 THEN 0 ELSE (x + Scale - 1) \div Scale

\* Mutant of score: the edit distance is not turned into a similarity.
score_distance(o, token, pattern_token) ==
    IF o.levenshtein
    THEN LET len == Max2(Len(token), Len(pattern_token))
             k == CutoffK(o.threshold, len)
             found == levenshtein_simd_k(token, pattern_token, k)
         IN  IF found = None THEN F64_MIN
             ELSE IF len = 0 THEN 0 ELSE (Scale * found[1]) \div len
    ELSE jaro_winkler(token, pattern_token)

\* Mutant of score: the edit distance is divided by the smaller length.
score_min_len(o, token, pattern_token) ==
    IF o.levenshtein
    THEN LET len == Min2(Len(token), Len(pattern_token))
             k == CutoffK(o.threshold, len)
             found == levenshtein_simd_k(token, pattern_token, k)
         IN  IF found = None THEN F64_MIN
             ELSE LET dist == found[1]
                  IN  Scale - (IF len = 0 THEN 0 ELSE (Scale * dist) \div len)
    ELSE jaro_winkler(token, pattern_token)

\* The score of a vocabulary token against a pattern token.
score(o, token, pattern_token) ==
    IF o.levenshtein
    THEN LET len == Max2(Len(token), Len(pattern_token))
             k == CutoffK(o.threshold, len)
             found == levenshtein_simd_k(token, pattern_token, k)
         IN  IF found = None THEN F64_MIN
             ELSE LET dist == found[1]
                  IN  Scale - (IF len = 0 THEN 0 ELSE (Scale * dist) \div len)
    ELSE jaro_winkler(token, pattern_token)

(***************************************************************************)
(* The configurations and inputs of the model, and the tokenizer and the  *)
(* scores tabulated over them (the tables hold what the operators compute).*)
(***************************************************************************)
\* The thresholds of the model. SearchOptions::threshold stores any f64, so two
\* of them lie outside 0.0 ..= 1.0: -0.5 and 1.5.
Thresholds ==
    {0 - Tenths(5), Tenths(3), Tenths(6), Tenths(8), Tenths(10), Tenths(15)}

\* The configurations: both metrics, each with thresholds inside 0.0 .. 1.0 and
\* with threshold 1.0, edit distance with a threshold below 0.0, and every
\* tokenizer option changed from its default in one of them.
Options ==
    { SearchOptions_new,
      with_stop_words(with_threshold(SearchOptions_new, Tenths(3)), << <<"b">> >>),
      with_threshold(SearchOptions_new, Tenths(10)),
      with_case_sensitive(
          with_threshold(with_levenshtein(SearchOptions_new, TRUE), Tenths(3)), TRUE),
      with_stop_whitespace(
          with_threshold(with_levenshtein(SearchOptions_new, TRUE), Tenths(6)), FALSE),
      with_threshold(with_levenshtein(SearchOptions_new, TRUE), Tenths(10)),
      with_threshold(with_levenshtein(SearchOptions_new, TRUE), 0 - Tenths(5)) }

\* The configurations of the model under every threshold of the model.
Configs == {with_threshold(o, t) : o \in Options, t \in Thresholds}

\* Mutant of SortedTokens: the sorted tokens are not deduplicated.
SortedTokens_no_dedup(o, tokens) == SortTokens(tokenize(o, tokens))

\* tokenize followed by sort and dedup, as insert_tokens and search_tokens do
SortedTokens(o, tokens) == Dedup(SortTokens(tokenize(o, tokens)))

SortedTokensTable ==
    [o \in Configs |-> [tokens \in TokenizerInputs |-> SortedTokens(o, tokens)]]

\* Every token the inputs can produce.
Vocabulary ==
    UNION {Range(SortedTokensTable[o][tokens]) :
              o \in Options, tokens \in TokenizerInputs}

ScoreTable ==
    [o \in Configs |->
        [token \in Vocabulary |->
            [pattern_token \in Vocabulary |-> score(o, token, pattern_token)]]]

(***************************************************************************)
(* The engine. An engine value e is the struct SimSearch; e.panicked says  *)
(* that an operation on it has panicked.                                   *)
(***************************************************************************)
\* HashMap::insert and HashMap::remove
MapInsert(m, k, v) == [x \in DOMAIN m \cup {k} |-> IF x = k THEN v ELSE m[x]]
MapRemove(m, k) == [x \in DOMAIN m \ {k} |-> m[x]]

new_with(o) ==
    [option          |-> o,
     id_num_counter  |-> 0,
     ids_map         |-> <<>>,
     reverse_ids_map |-> <<>>,
     forward_map     |-> <<>>,
     reverse_map     |-> <<>>,
     panicked        |-> FALSE]

new == new_with(SearchOptions_new)

\* The loop of delete: for each token of the entry, in order, drop id_num from
\* the token's bucket. get_mut(token).unwrap() panics on a token without bucket,
\* with the buckets of the tokens before it already pruned.
\* Mutant of RetainLoop: the buckets are not pruned.
RetainLoop_none(rm, tokens, id_num) == [reverse_map |-> rm, panicked |-> FALSE]

\* Mutant of RetainLoop: the bucket of each token of the entry is emptied.
RECURSIVE RetainLoop_clear(_, _, _)
RetainLoop_clear(rm, tokens, id_num) ==
    IF tokens = <<>> THEN [reverse_map |-> rm, panicked |-> FALSE]
    ELSE LET token == Head(tokens)
         IN  IF token \notin DOMAIN rm
             THEN [reverse_map |-> rm, panicked |-> TRUE]
             ELSE RetainLoop_clear([rm EXCEPT ![token] = <<>>],
                                   Tail(tokens), id_num)

RECURSIVE RetainLoop(_, _, _)
RetainLoop(rm, tokens, id_num) ==
    IF tokens = <<>> THEN [reverse_map |-> rm, panicked |-> FALSE]
    ELSE LET token == Head(tokens)
             Other(i) == i # id_num
         IN  IF token \notin DOMAIN rm
             THEN [reverse_map |-> rm, panicked |-> TRUE]
             ELSE RetainLoop([rm EXCEPT ![token] = SelectSeq(rm[token], Other)],
                             Tail(tokens), id_num)

\* Mutant of delete_entry: the slot's identifier is not removed.
delete_entry_keeps_slot(e, id) ==
    LET id_num == e.ids_map[id]
        r == RetainLoop(e.reverse_map, e.forward_map[id_num], id_num)
    IN  [e EXCEPT !.reverse_map = r.reverse_map,
                  !.forward_map = MapRemove(e.forward_map, id_num),
                  !.ids_map = MapRemove(e.ids_map, id)]

\* Mutant of delete_entry: only the identifier is forgotten.
delete_entry_only_id(e, id) == [e EXCEPT !.ids_map = MapRemove(e.ids_map, id)]

\* The body of delete's if-let: id is live.
delete_entry(e, id) ==
    LET id_num == e.ids_map[id]
    IN  IF id_num \notin DOMAIN e.forward_map
        THEN [e EXCEPT !.panicked = TRUE]
        ELSE LET r == RetainLoop(e.reverse_map, e.forward_map[id_num], id_num)
             IN  IF r.panicked
                 THEN [e EXCEPT !.reverse_map = r.reverse_map,
                                !.panicked = TRUE]
                 ELSE [e EXCEPT !.reverse_map = r.reverse_map,
                                !.forward_map = MapRemove(e.forward_map, id_num),
                                !.reverse_ids_map =
                                    MapRemove(e.reverse_ids_map, id_num),
                                !.ids_map = MapRemove(e.ids_map, id)]

\* Mutant of delete: the identifier is looked up by index, which panics on an
\* identifier that is not there.
delete_unchecked(e, id) ==
    IF id \in DOMAIN e.ids_map THEN delete_entry(e, id)
    ELSE [e EXCEPT !.panicked = TRUE]

delete(e, id) ==
    IF id \in DOMAIN e.ids_map THEN delete_entry(e, id) ELSE e

\* The loop of insert_tokens: push id_num on the bucket of each token.
RECURSIVE PushLoop(_, _, _)
PushLoop(rm, tokens, id_num) ==
    IF tokens = <<>> THEN rm
    ELSE LET token == Head(tokens)
             bucket == IF token \in DOMAIN rm THEN rm[token] ELSE <<>>
         IN  PushLoop(MapInsert(rm, token, Append(bucket, id_num)),
                      Tail(tokens), id_num)

\* Mutant of insert_tokens: the existing entry is not deleted first.
insert_tokens_no_delete(e, id, tokens) ==
    LET id_num == e.id_num_counter
        toks == SortedTokensTable[e.option][tokens]
    IN  [e EXCEPT !.ids_map = MapInsert(e.ids_map, id, id_num),
                  !.reverse_ids_map = MapInsert(e.reverse_ids_map, id_num, id),
                  !.id_num_counter = id_num + 1,
                  !.reverse_map = PushLoop(e.reverse_map, toks, id_num),
                  !.forward_map = MapInsert(e.forward_map, id_num, toks)]

\* Mutant of insert_tokens: the slot is the number of live entries, not the
\* counter.
insert_tokens_live_count(e, id, tokens) ==
    LET d == delete(e, id)
        id_num == Cardinality(DOMAIN d.ids_map)
        toks == SortedTokensTable[d.option][tokens]
    IN  IF d.panicked THEN d
        ELSE [d EXCEPT !.ids_map = MapInsert(d.ids_map, id, id_num),
                       !.reverse_ids_map = MapInsert(d.reverse_ids_map, id_num, id),
                       !.id_num_counter = d.id_num_counter + 1,
                       !.reverse_map = PushLoop(d.reverse_map, toks, id_num),
                       !.forward_map = MapInsert(d.forward_map, id_num, toks)]

insert_tokens(e, id, tokens) ==
    LET d == delete(e, id)
        id_num == d.id_num_counter
        toks == SortedTokensTable[d.option][tokens]
    IN  IF d.panicked THEN d
        ELSE [d EXCEPT !.ids_map = MapInsert(d.ids_map, id, id_num),
                       !.reverse_ids_map = MapInsert(d.reverse_ids_map, id_num, id),
                       !.id_num_counter = id_num + 1,
                       !.reverse_map = PushLoop(d.reverse_map, toks, id_num),
                       !.forward_map = MapInsert(d.forward_map, id_num, toks)]

insert(e, id, content) == insert_tokens(e, id, <<content>>)

(***************************************************************************)
(* search_tokens.                                                          *)
(***************************************************************************)
\* Mutant of TokenScores: the threshold comparison is not strict.
RECURSIVE TokenScores_ge(_, _)
TokenScores_ge(e, pts) ==
    IF pts = <<>> THEN <<>>
    ELSE LET before == TokenScores_ge(e, SubSeq(pts, 1, Len(pts) - 1))
             pattern_token == pts[Len(pts)]
             scores == ScoreTable[e.option]
             hit == {token \in DOMAIN e.reverse_map :
                        scores[token][pattern_token] >= e.option.threshold}
         IN  [token \in DOMAIN before \cup hit |->
                 IF token \in hit THEN scores[token][pattern_token]
                 ELSE before[token]]

\* Mutant of TokenScores: the threshold comparison is reversed.
RECURSIVE TokenScores_below(_, _)
TokenScores_below(e, pts) ==
    IF pts = <<>> THEN <<>>
    ELSE LET before == TokenScores_below(e, SubSeq(pts, 1, Len(pts) - 1))
             pattern_token == pts[Len(pts)]
             scores == ScoreTable[e.option]
             hit == {token \in DOMAIN e.reverse_map :
                        scores[token][pattern_token] < e.option.threshold}
         IN  [token \in DOMAIN before \cup hit |->
                 IF token \in hit THEN scores[token][pattern_token]
                 ELSE before[token]]

\* The first loop: token_scores after the pattern tokens pts, taken in order.
\* HashMap::insert replaces the score a token already has.
RECURSIVE TokenScores(_, _)
TokenScores(e, pts) ==
    IF pts = <<>> THEN <<>>
    ELSE LET before == TokenScores(e, SubSeq(pts, 1, Len(pts) - 1))
             pattern_token == pts[Len(pts)]
             scores == ScoreTable[e.option]
             hit == {token \in DOMAIN e.reverse_map :
                        scores[token][pattern_token] > e.option.threshold}
         IN  [token \in DOMAIN before \cup hit |->
                 IF token \in hit THEN scores[token][pattern_token]
                 ELSE before[token]]

RECURSIVE SumOver(_, _)
SumOver(f, S) ==
    IF S = {} THEN 0
    ELSE LET x == CHOOSE y \in S : TRUE IN f[x] + SumOver(f, S \ {x})

\* The second loop: result_scores, the total of every slot in the bucket of a
\* scored token (once for each time the slot is in the bucket).
ResultScores(e, token_scores) ==
    LET slots == UNION {Range(e.reverse_map[token]) : token \in DOMAIN token_scores}
        Times(token, id_num) ==
            Cardinality({i \in DOMAIN e.reverse_map[token] :
                            e.reverse_map[token][i] = id_num})
    IN  [id_num \in slots |->
            SumOver([token \in DOMAIN token_scores |->
                        Times(token, id_num) * token_scores[token]],
                    DOMAIN token_scores)]

\* The sequences over the set S without repetition.
Orders(S) ==
    {p \in [1..Cardinality(S) -> S] : \A i, j \in DOMAIN p : i # j => p[i] # p[j]}

\* Mutant of SortedOrders: the sort is ascending.
SortedOrders_ascending(result_scores) ==
    {p \in Orders(DOMAIN result_scores) :
        \A i, j \in DOMAIN p : i < j => result_scores[p[i]] <= result_scores[p[j]]}

\* result_scores.drain().collect() followed by the stable sort_by: drain yields
\* the slots in any order, so slots of equal total end in any order.
SortedOrders(result_scores) ==
    {p \in Orders(DOMAIN result_scores) :
        \A i, j \in DOMAIN p : i < j => result_scores[p[i]] >= result_scores[p[j]]}

\* The outcomes of search_tokens: one for every order the sort can leave, with
\* the token_scores of the first loop. The expect panics on a slot without
\* identifier.
search_tokens(e, pattern_tokens) ==
    LET pts == SortedTokensTable[e.option][pattern_tokens]
        token_scores == TokenScores(e, pts)
        result_scores == ResultScores(e, token_scores)
    IN  {IF \A i \in DOMAIN p : p[i] \in DOMAIN e.reverse_ids_map
         THEN [panicked |-> FALSE, token_scores |-> token_scores,
               result |-> [i \in DOMAIN p |-> e.reverse_ids_map[p[i]]]]
         ELSE [panicked |-> TRUE, token_scores |-> token_scores, result |-> <<>>]
         : p \in SortedOrders(result_scores)}

search(e, pattern) == search_tokens(e, <<pattern>>)

(***************************************************************************)
(* The state machine: a caller constructs an engine and calls its public   *)
(* operations in any order.                                                *)
(***************************************************************************)
Self ==
    [option          |-> option,
     id_num_counter  |-> id_num_counter,
     ids_map         |-> ids_map,
     reverse_ids_map |-> reverse_ids_map,
     forward_map     |-> forward_map,
     reverse_map     |-> reverse_map,
     panicked        |-> panicked]

Become(e) ==
    /\ option' = e.option
    /\ id_num_counter' = e.id_num_counter
    /\ ids_map' = e.ids_map
    /\ reverse_ids_map' = e.reverse_ids_map
    /\ forward_map' = e.forward_map
    /\ reverse_map' = e.reverse_map
    /\ panicked' = e.panicked

engine == <<option, id_num_counter, ids_map, reverse_ids_map, forward_map,
            reverse_map>>

\* A value that is no identifier.
NoId == CHOOSE n \in 0..Cardinality(Ids) : n \notin Ids

\* The record of a call. A search records the token_scores of its first loop,
\* and in `follows` the identifier of the insert call it directly follows when
\* that call had the same arguments.
Call(op, id, tokens) ==
    [op |-> op, id |-> id, tokens |-> tokens, result |-> <<>>,
     token_scores |-> <<>>, follows |-> NoId]

SearchCall(tokens, out) ==
    [op |-> "search_tokens", id |-> NoId, tokens |-> tokens,
     result |-> out.result, token_scores |-> out.token_scores,
     follows |-> IF last.op = "insert_tokens" /\ last.tokens = tokens
                 THEN last.id ELSE NoId]

Init ==
    /\ \E o \in Options :
          LET e == new_with(o)
          IN  /\ option = e.option
              /\ id_num_counter = e.id_num_counter
              /\ ids_map = e.ids_map
              /\ reverse_ids_map = e.reverse_ids_map
              /\ forward_map = e.forward_map
              /\ reverse_map = e.reverse_map
              /\ panicked = e.panicked
    /\ last = Call("new_with", NoId, <<>>)
    /\ deleted = {}
    /\ assigned = {}
    /\ hist = <<>>

InsertTokens(id, tokens) ==
    /\ ~panicked
    /\ id_num_counter < MaxInserts
    /\ Become(insert_tokens(Self, id, tokens))
    /\ last' = Call("insert_tokens", id, tokens)
    /\ deleted' = deleted \ {id}
    /\ assigned' = IF panicked' THEN assigned ELSE assigned \cup {ids_map'[id]}
    /\ UNCHANGED hist

\* insert hands insert_tokens the list of its one fragment.
Insert(id, content) ==
    /\ ~panicked
    /\ id_num_counter < MaxInserts
    /\ Become(insert(Self, id, content))
    /\ last' = Call("insert_tokens", id, <<content>>)
    /\ deleted' = deleted \ {id}
    /\ assigned' = IF panicked' THEN assigned ELSE assigned \cup {ids_map'[id]}
    /\ UNCHANGED hist

Delete(id) ==
    /\ ~panicked
    /\ Become(delete(Self, id))
    /\ last' = Call("delete", id, <<>>)
    /\ deleted' = deleted \cup {id}
    /\ UNCHANGED <<assigned, hist>>

\* Mutant of SearchTokens: the search leaves an empty bucket for every token of
\* the query in the reverse map.
SearchTokens_buckets(pattern_tokens) ==
    /\ ~panicked
    /\ \E out \in search_tokens(Self, pattern_tokens) :
          /\ panicked' = out.panicked
          /\ last' = SearchCall(pattern_tokens, out)
    /\ reverse_map' =
          [t \in DOMAIN reverse_map
                 \cup Range(SortedTokensTable[option][pattern_tokens]) |->
              IF t \in DOMAIN reverse_map THEN reverse_map[t] ELSE <<>>]
    /\ UNCHANGED <<option, id_num_counter, ids_map, reverse_ids_map, forward_map,
                   deleted, assigned, hist>>

SearchTokens(pattern_tokens) ==
    /\ ~panicked
    /\ \E out \in search_tokens(Self, pattern_tokens) :
          /\ panicked' = out.panicked
          /\ last' = SearchCall(pattern_tokens, out)
    /\ UNCHANGED <<engine, deleted, assigned, hist>>

\* search hands search_tokens the list of its one fragment.
Search(pattern) ==
    /\ ~panicked
    /\ \E out \in search(Self, pattern) :
          /\ panicked' = out.panicked
          /\ last' = SearchCall(<<pattern>>, out)
    /\ UNCHANGED <<engine, deleted, assigned, hist>>

Next ==
    \/ \E id \in Ids, tokens \in FragLists : InsertTokens(id, tokens)
    \/ \E id \in Ids, content \in Fragments : Insert(id, content)
    \/ \E id \in Ids : Delete(id)
    \/ \E pattern_tokens \in FragLists : SearchTokens(pattern_tokens)
    \/ \E pattern \in Fragments : Search(pattern)

Spec == Init /\ [][Next]_vars

(***************************************************************************)
(* The re-insert scenario: on a fresh engine, insert(id, a), then          *)
(* insert(id, b), then searches. hist records the two insert calls.        *)
(***************************************************************************)
FirstInsert(id, tokens) ==
    /\ ~panicked
    /\ hist = <<>>
    /\ Become(insert_tokens(Self, id, tokens))
    /\ last' = Call("insert_tokens", id, tokens)
    /\ hist' = <<[id |-> id, tokens |-> tokens]>>
    /\ assigned' = IF panicked' THEN assigned ELSE assigned \cup {ids_map'[id]}
    /\ UNCHANGED deleted

ReInsert(tokens) ==
    /\ ~panicked
    /\ Len(hist) = 1
    /\ Become(insert_tokens(Self, hist[1].id, tokens))
    /\ last' = Call("insert_tokens", hist[1].id, tokens)
    /\ hist' = Append(hist, [id |-> hist[1].id, tokens |-> tokens])
    /\ assigned' = IF panicked' THEN assigned
                   ELSE assigned \cup {ids_map'[hist[1].id]}
    /\ UNCHANGED deleted

SearchAfter(pattern_tokens) ==
    /\ Len(hist) = 2
    /\ SearchTokens(pattern_tokens)

NextReinsert ==
    \/ \E id \in Ids, tokens \in TokenizerInputs : FirstInsert(id, tokens)
    \/ \E tokens \in TokenizerInputs : ReInsert(tokens)
    \/ \E pattern_tokens \in TokenizerInputs : SearchAfter(pattern_tokens)

SpecReinsert == Init /\ [][NextReinsert]_vars

\* The fresh engine of the same configuration with only the second insert.
OnlySecondInsert ==
    insert_tokens(new_with(option), hist[2].id, hist[2].tokens)

(***************************************************************************)
(* The tokenizer on its own: an engine of any tokenizer configuration      *)
(* tokenizes a list of fragments, as insert_tokens and search_tokens do    *)
(* with their argument.                                                    *)
(***************************************************************************)
\* The stop word lists: none, one word, a word and a word that contains it in
\* both orders, two words that overlap in both orders, and the empty word.
StopWordLists ==
    { <<>>,
      << <<"b">> >>,
      << <<"a">>, <<"a", "b">> >>,
      << <<"a", "b">>, <<"a">> >>,
      << <<"a", "b">>, <<"b", "a">> >>,
      << <<"b", "a">>, <<"a", "b">> >>,
      << <<>> >> }

TokenizeOptions ==
    {with_stop_words(with_stop_whitespace(with_case_sensitive(
                         SearchOptions_new, cs), sw), ws) :
        cs \in BOOLEAN, sw \in BOOLEAN, ws \in StopWordLists}

\* Fragments in which the stop words occur: repeated, overlapping, next to
\* whitespace and in upper case.
StopFragments ==
    { <<"a", "a", "b">>,
      <<"a", "b", "a">>,
      <<"b", "a", "b", "a">>,
      <<"A", "B", " ", "b">>,
      <<"b", "-", "a">> }

TokenizeInputs == TokenizerInputs \cup {<<f>> : f \in StopFragments}

InitTokenize ==
    /\ \E o \in TokenizeOptions :
          LET e == new_with(o)
          IN  /\ option = e.option
              /\ id_num_counter = e.id_num_counter
              /\ ids_map = e.ids_map
              /\ reverse_ids_map = e.reverse_ids_map
              /\ forward_map = e.forward_map
              /\ reverse_map = e.reverse_map
              /\ panicked = e.panicked
    /\ last = Call("new_with", NoId, <<>>)
    /\ deleted = {}
    /\ assigned = {}
    /\ hist = <<>>

\* self.tokenize(tokens): the call records the tokens it returns.
Tokenize(tokens) ==
    /\ last' = [Call("tokenize", NoId, tokens) EXCEPT
                   !.result = tokenize(option, tokens)]
    /\ UNCHANGED <<engine, panicked, deleted, assigned, hist>>

NextTokenize == \E tokens \in TokenizeInputs : Tokenize(tokens)

SpecTokenize == InitTokenize /\ [][NextTokenize]_vars

(***************************************************************************)
(* The properties.                                                         *)
(***************************************************************************)
LiveIds == DOMAIN ids_map
LiveSlots == {ids_map[id] : id \in LiveIds}
IsSearch == last.op = "search_tokens"

\* The tokens of a live identifier and the tokens of the last call's arguments.
TokensOf(id) == Range(forward_map[ids_map[id]])
LastTokens == Range(tokenize(option, last.tokens))

MaxOf(S) == CHOOSE x \in S : \A y \in S : y <= x

\* C1: the identifier<->slot mapping is a bijection that matches the forward
\* map: forward_map, reverse_ids_map and the values of ids_map have the same
\* slots, ids_map[id] = s iff reverse_ids_map[s] = id, and no two identifiers
\* share a slot.
C1_Bijection ==
    /\ DOMAIN forward_map = DOMAIN reverse_ids_map
    /\ DOMAIN reverse_ids_map = LiveSlots
    /\ \A id \in Ids, s \in 0..id_num_counter :
          (id \in LiveIds /\ ids_map[id] = s)
          <=> (s \in DOMAIN reverse_ids_map /\ reverse_ids_map[s] = id)
    /\ \A id1, id2 \in LiveIds : ids_map[id1] = ids_map[id2] => id1 = id2

\* A live identifier was inserted again, with other tokens.
C1_Witness ==
    /\ last.op = "insert_tokens"
    /\ deleted = {}
    /\ id_num_counter >= 2
    /\ ids_map[last.id] = id_num_counter - 1
    /\ \E t \in DOMAIN reverse_map : reverse_map[t] = <<>>

\* C2: the reverse map is the inverse of the forward map: slot s is in the
\* bucket of token t iff s is live and t is in forward_map[s].
C2_ReverseIsInverse ==
    LET tokens == DOMAIN reverse_map
                  \cup UNION {Range(forward_map[s]) : s \in DOMAIN forward_map}
    IN  \A t \in tokens, s \in 0..id_num_counter :
           (t \in DOMAIN reverse_map /\ s \in Range(reverse_map[t]))
           <=> (s \in DOMAIN forward_map /\ t \in Range(forward_map[s]))

\* A delete emptied a bucket and left the bucket of another entry alone.
C2_Witness ==
    /\ last.op = "delete"
    /\ deleted # {}
    /\ \E t \in DOMAIN reverse_map : reverse_map[t] = <<>>
    /\ \E t \in DOMAIN reverse_map : reverse_map[t] # <<>>

\* C3: search_tokens returns, each once, exactly the live identifiers with a
\* token that scores above the threshold against some query token.
C3_ResultSet ==
    IsSearch =>
        /\ Range(last.result) =
              {id \in LiveIds :
                  \E v \in TokensOf(id), q \in LastTokens :
                      score(option, v, q) > option.threshold}
        /\ Cardinality(Range(last.result)) = Len(last.result)

\* A search returned one of two live identifiers on a token that is not one of
\* the query's tokens.
C3_Witness ==
    /\ IsSearch
    /\ Cardinality(LiveIds) = 2
    /\ Len(last.result) = 1
    /\ TokensOf(last.result[1]) \cap LastTokens = {}

\* C4: the score search_tokens retains for a vocabulary token is the maximum
\* of its scores above the threshold over the query tokens.
C4_RetainsMaximum ==
    IsSearch =>
        \A v \in DOMAIN last.token_scores :
            last.token_scores[v] =
                MaxOf({x \in {score(option, v, q) : q \in LastTokens} :
                          x > option.threshold})

\* The total of a live identifier: the sum of the retained scores of the tokens
\* of its forward token list.
Total(id) ==
    SumOver(last.token_scores, TokensOf(id) \cap DOMAIN last.token_scores)

\* C5: the result of search_tokens is ordered by non-increasing total.
C5_Ordered ==
    IsSearch =>
        \A i, j \in DOMAIN last.result :
            i < j => Total(last.result[i]) >= Total(last.result[j])

\* A search returned two identifiers of different totals.
C5_Witness ==
    /\ IsSearch
    /\ Len(last.result) = 2
    /\ Total(last.result[1]) > Total(last.result[2])

\* C6: with a threshold below 1.0, a search that directly follows
\* insert(id, content) with the same content, which has a token, returns id.
C6_RoundTrip ==
    (/\ IsSearch
     /\ last.follows # NoId
     /\ LastTokens # {}
     /\ option.threshold < Scale)
    => last.follows \in Range(last.result)

\* Such a search on an engine that holds another entry, in edit-distance mode.
C6_Witness ==
    /\ IsSearch
    /\ last.follows # NoId
    /\ LastTokens # {}
    /\ option.threshold < Scale
    /\ option.levenshtein
    /\ Cardinality(LiveIds) = 2
    /\ last.follows \in Range(last.result)

\* What an engine holds, whatever its slot numbers: the token list of every
\* live identifier, and for every token with a non-empty bucket the identifiers
\* of the slots in it (NoId for a slot without identifier).
Entries(e) ==
    [entries |-> [id \in DOMAIN e.ids_map |->
                     IF e.ids_map[id] \in DOMAIN e.forward_map
                     THEN e.forward_map[e.ids_map[id]] ELSE <<>>],
     index   |-> [t \in {u \in DOMAIN e.reverse_map : e.reverse_map[u] # <<>>} |->
                     {IF s \in DOMAIN e.reverse_ids_map
                      THEN e.reverse_ids_map[s] ELSE NoId :
                         s \in Range(e.reverse_map[t])}]]

\* C7 as stated: after insert(id, a) and insert(id, b) on a fresh engine the
\* identifier<->slot maps, the forward map and the reverse map are those of a
\* fresh engine with only insert(id, b).
C7_SameState ==
    Len(hist) = 2 =>
        /\ ids_map = OnlySecondInsert.ids_map
        /\ reverse_ids_map = OnlySecondInsert.reverse_ids_map
        /\ forward_map = OnlySecondInsert.forward_map
        /\ reverse_map = OnlySecondInsert.reverse_map

\* C7 amended: after insert(id, a) and insert(id, b) on a fresh engine the
\* engine holds the entries of a fresh engine with only insert(id, b): the same
\* live identifiers with the same token lists, and the same identifiers behind
\* every token with a non-empty bucket.
C7_SameEntries ==
    Len(hist) = 2 => Entries(Self) = Entries(OnlySecondInsert)

\* The second insert replaced a token of the first.
C7_Witness ==
    /\ Len(hist) = 2
    /\ last.op = "insert_tokens"
    /\ \E t \in DOMAIN reverse_map : reverse_map[t] = <<>>
    /\ \E t \in DOMAIN reverse_map : reverse_map[t] # <<>>

\* C8: after insert(id, a) and insert(id, b) on a fresh engine every search
\* returns what it returns on a fresh engine with only insert(id, b).
C8_SameResults ==
    (Len(hist) = 2 /\ IsSearch) =>
        \E out \in search_tokens(OnlySecondInsert, last.tokens) :
            /\ out.panicked = panicked
            /\ out.result = last.result

\* A search that the entry of the first insert matches and the entry of the
\* second does not: it returns nothing.
C8_Witness ==
    /\ Len(hist) = 2
    /\ IsSearch
    /\ last.result = <<>>
    /\ \E out \in search_tokens(
                     insert_tokens(new_with(option), hist[1].id, hist[1].tokens),
                     last.tokens) :
          out.result = <<hist[1].id>>

\* C9: a search returns no identifier that was deleted and not inserted since.
C9_DeletedNotReturned ==
    IsSearch => Range(last.result) \cap deleted = {}

\* A search scored a token that only a deleted entry held, and returned the
\* other identifier.
C9_Witness ==
    /\ IsSearch
    /\ deleted # {}
    /\ \E t \in DOMAIN last.token_scores : reverse_map[t] = <<>>
    /\ last.result # <<>>

\* C10: delete(id) on an identifier with no live entry does not panic and
\* leaves ids_map, reverse_ids_map, forward_map, reverse_map and the slot
\* counter as they were.
C10_DeleteAbsentNoop ==
    [][(last'.op = "delete" /\ last'.id \notin DOMAIN ids_map)
          => (~panicked' /\ UNCHANGED engine)]_vars

\* A delete of an identifier that was never inserted, next to a live entry.
C10_Witness ==
    /\ last.op = "delete"
    /\ id_num_counter = 1
    /\ Cardinality(LiveIds) = 1
    /\ last.id \notin LiveIds

\* C11: search and search_tokens leave the engine as it was: the configuration,
\* the slot counter, ids_map, reverse_ids_map, forward_map and reverse_map are
\* the same before and after every search.
C11_SearchFrame ==
    [][last'.op = "search_tokens" => UNCHANGED engine]_vars

\* A search with an insert still to come: it returned the one live entry on a
\* query with a token the index does not hold.
C11_Witness ==
    /\ IsSearch
    /\ Cardinality(LiveIds) = 1
    /\ id_num_counter < MaxInserts
    /\ Len(last.result) = 1
    /\ LastTokens \ DOMAIN reverse_map # {}

\* C12: no operation panics, and the lookups that would panic always succeed:
\* every slot in a bucket of the reverse map has an identifier in
\* reverse_ids_map (the expect of search_tokens), every live identifier's slot
\* has a token list in forward_map and every token of that list has a bucket in
\* reverse_map (the index and the unwrap of delete).
C12_NoPanic ==
    /\ ~panicked
    /\ \A t \in DOMAIN reverse_map :
          Range(reverse_map[t]) \subseteq DOMAIN reverse_ids_map
    /\ \A id \in LiveIds :
          /\ ids_map[id] \in DOMAIN forward_map
          /\ Range(forward_map[ids_map[id]]) \subseteq DOMAIN reverse_map

\* A search with a query without tokens, after a delete emptied a bucket, on an
\* engine whose live entry has no token.
C12_Witness ==
    /\ IsSearch
    /\ LastTokens = {}
    /\ last.tokens # <<>>
    /\ deleted # {}
    /\ \E t \in DOMAIN reverse_map : reverse_map[t] = <<>>
    /\ \E id \in LiveIds : forward_map[ids_map[id]] = <<>>

\* The engine with threshold t in its configuration: insert_tokens, delete and
\* tokenize never read the threshold, so the same inserts and deletes leave the
\* same maps under every threshold.
AtThreshold(t) == [Self EXCEPT !.option = with_threshold(option, t)]

\* The identifiers a search for pattern_tokens on engine e returns.
ResultIds(e, pattern_tokens) ==
    UNION {Range(out.result) : out \in search_tokens(e, pattern_tokens)}

\* C13: for the index and the query of every search and thresholds t1 <= t2,
\* the identifiers returned under t2 are among those returned under t1, in
\* both metrics.
C13_ThresholdMonotone ==
    IsSearch =>
        \A t1, t2 \in Thresholds :
            t1 <= t2 =>
                ResultIds(AtThreshold(t2), last.tokens)
                    \subseteq ResultIds(AtThreshold(t1), last.tokens)

\* A search in edit-distance mode whose result under a higher threshold is a
\* non-empty proper part of its result under a lower one.
C13_Witness ==
    /\ IsSearch
    /\ option.levenshtein
    /\ \E t1, t2 \in Thresholds :
          /\ t1 < t2
          /\ ResultIds(AtThreshold(t2), last.tokens) # {}
          /\ ResultIds(AtThreshold(t2), last.tokens)
                # ResultIds(AtThreshold(t1), last.tokens)

\* C14: no engine built by new_with has a threshold below 0.0 or above 1.0.
C14_ThresholdInRange ==
    /\ 0 <= option.threshold
    /\ option.threshold <= Scale

\* C15: a search that directly follows a search with the same query, on the
\* engine that search left, returns the same sequence of identifiers.
C15_SameSequence ==
    [][(IsSearch /\ last'.op = "search_tokens" /\ last'.tokens = last.tokens)
          => last'.result = last.result]_vars

\* 1 - dist(v, q) / max(len(v), len(q)) with the exact Levenshtein distance, for
\* tokens that are not both empty.
ExactScore(v, q) ==
    Scale - (Scale * levenshtein(v, q)) \div Max2(Len(v), Len(q))

\* The pair (v, q) is retained: the first loop of search_tokens inserts v's
\* score against q into token_scores.
Retained(v, q) == score(option, v, q) > option.threshold

\* C16: in edit-distance mode, for every token v of the index and every token q
\* of a search's query, (v, q) is retained iff 1 - dist(v, q) / max(len) exceeds
\* the threshold, a pair whose distance exceeds the cutoff k is not retained,
\* and the tokens the search scored are those of the retained pairs.
C16_CutoffExact ==
    (IsSearch /\ option.levenshtein) =>
        /\ \A v \in DOMAIN reverse_map, q \in LastTokens :
              /\ Retained(v, q) <=> ExactScore(v, q) > option.threshold
              /\ levenshtein(v, q)
                    > CutoffK(option.threshold, Max2(Len(v), Len(q)))
                 => ~Retained(v, q)
        /\ DOMAIN last.token_scores =
              {v \in DOMAIN reverse_map :
                  \E q \in LastTokens : ExactScore(v, q) > option.threshold}

\* A search in edit-distance mode with a threshold inside 0.0 .. 1.0 that met a
\* retained pair of different tokens, a pair within the cutoff that is not
\* retained, and a pair beyond the cutoff.
C16_Witness ==
    /\ IsSearch
    /\ option.levenshtein
    /\ 0 <= option.threshold /\ option.threshold <= Scale
    /\ \E v \in DOMAIN reverse_map, q \in LastTokens :
          v # q /\ Retained(v, q)
    /\ \E v \in DOMAIN reverse_map, q \in LastTokens :
          /\ levenshtein(v, q) <= CutoffK(option.threshold, Max2(Len(v), Len(q)))
          /\ ~Retained(v, q)
    /\ \E v \in DOMAIN reverse_map, q \in LastTokens :
          levenshtein(v, q) > CutoffK(option.threshold, Max2(Len(v), Len(q)))

\* C17: every live slot is below id_num_counter, id_num_counter never
\* decreases, and every insert_tokens call gives its identifier a slot that no
\* earlier insert_tokens call had assigned, and moves the counter past it.
C17_FreshSlots ==
    /\ [](\A s \in LiveSlots : s < id_num_counter)
    /\ [][/\ id_num_counter' >= id_num_counter
          /\ last'.op = "insert_tokens" =>
                /\ last'.id \in DOMAIN ids_map'
                /\ ids_map'[last'.id] \notin assigned
                /\ ids_map'[last'.id] < id_num_counter']_vars

\* An insert after a delete: the slot of the deleted entry was assigned before
\* and is not live, and the insert took the next slot.
C17_Witness ==
    /\ last.op = "insert_tokens"
    /\ deleted # {}
    /\ assigned \ LiveSlots # {}
    /\ ids_map[last.id] = id_num_counter - 1
    /\ \A s \in assigned : s <= ids_map[last.id]

NoRepeat(xs) == \A i, j \in DOMAIN xs : i # j => xs[i] # xs[j]

\* C18: no forward token list holds a token twice and no bucket of the reverse
\* map holds a slot twice, so the total search_tokens computes for an
\* identifier it returns counts the retained score of each of its tokens once.
C18_NoDuplicates ==
    /\ \A s \in DOMAIN forward_map : NoRepeat(forward_map[s])
    /\ \A t \in DOMAIN reverse_map : NoRepeat(reverse_map[t])
    /\ IsSearch =>
          \A id \in Range(last.result) :
              ResultScores(Self, last.token_scores)[ids_map[id]] = Total(id)

\* A search that directly follows an insert whose content holds a token twice,
\* with the same content, and returns the entry.
C18_Witness ==
    /\ IsSearch
    /\ last.follows \in Range(last.result)
    /\ ~NoRepeat(tokenize(option, last.tokens))

\* Does the string s contain pat?
Contains(s, pat) == \E i \in 1..Len(s) + 1 : OccursAt(s, pat, i)

\* C19: tokenize returns no empty token, and under a configuration whose stop
\* words are non-empty strings no token it returns contains a stop word,
\* whatever the order of the stop words.
C19_NoStopWords ==
    last.op = "tokenize" =>
        /\ \A i \in DOMAIN last.result : last.result[i] # <<>>
        /\ (\A k \in DOMAIN option.stop_words : option.stop_words[k] # <<>>)
           => \A i \in DOMAIN last.result, k \in DOMAIN option.stop_words :
                 ~Contains(last.result[i], option.stop_words[k])

\* tokenize returned a token under two stop words, from a fragment that holds
\* both, where the stop words in the other order leave other tokens.
C19_Witness ==
    /\ last.op = "tokenize"
    /\ Len(option.stop_words) = 2
    /\ last.result # <<>>
    /\ \A k \in DOMAIN option.stop_words :
          \E i \in DOMAIN last.tokens :
              Contains(IF option.case_sensitive THEN last.tokens[i]
                       ELSE to_lowercase(last.tokens[i]),
                       option.stop_words[k])
    /\ last.result #
          tokenize(with_stop_words(option, <<option.stop_words[2],
                                             option.stop_words[1]>>),
                   last.tokens)

\* The tokens whose bucket in the reverse map rm holds slot s.
BucketsOf(rm, s) == {t \in DOMAIN rm : s \in Range(rm[t])}

\* The total search_tokens computes on engine e for identifier id and the query
\* pattern_tokens: <<total>>, or <<>> when id is not returned.
TotalFor(e, id, pattern_tokens) ==
    LET token_scores == TokenScores(e, SortedTokensTable[e.option][pattern_tokens])
        result_scores == ResultScores(e, token_scores)
    IN  IF e.ids_map[id] \in DOMAIN result_scores
        THEN <<result_scores[e.ids_map[id]]>> ELSE <<>>

\* C20: insert_tokens(id, ...) and delete(id) leave every other live identifier
\* its slot, its forward token list and the set of buckets that hold its slot,
\* and with them its total for every query.
C20_OthersUnchanged ==
    [][last'.op \in {"insert_tokens", "delete"} =>
          \A other \in LiveIds \ {last'.id} :
              /\ other \in DOMAIN ids_map'
              /\ ids_map'[other] = ids_map[other]
              /\ ids_map[other] \in DOMAIN forward_map'
              /\ forward_map'[ids_map[other]] = forward_map[ids_map[other]]
              /\ BucketsOf(reverse_map', ids_map[other])
                    = BucketsOf(reverse_map, ids_map[other])
              /\ \A pattern_tokens \in TokenizerInputs :
                    TotalFor(Self', other, pattern_tokens)
                        = TotalFor(Self, other, pattern_tokens)]_vars

\* An insert next to a live entry: it pushed its slot on a bucket that holds the
\* other entry's slot, and the other entry holds a token of its own.
C20_Witness ==
    /\ last.op = "insert_tokens"
    /\ \E other \in LiveIds \ {last.id} :
          /\ \E t \in DOMAIN reverse_map :
                reverse_map[t] = <<ids_map[other], ids_map[last.id]>>
          /\ \E u \in DOMAIN reverse_map : reverse_map[u] = <<ids_map[other]>>

====
